---- MODULE Spec2Model ----
(***************************************************************************)
(* Model of RSSpythemes.fonts (src/RSSpythemes/fonts/__init__.py): the     *)
(* font accessor that locates the bundled Source Sans Pro directory, lists *)
(* its .ttf files and registers them with matplotlib's font manager.       *)
(*                                                                         *)
(* A filename is the sequence of its characters, so that the "*.ttf" glob  *)
(* and Python's sorted() are computed on the characters.  The file system  *)
(* and the font manager are the environment: the directory content, the    *)
(* order in which the directory is scanned, the files matplotlib cannot    *)
(* load, the families the font manager knows at start-up and the presence  *)
(* of font_manager._rebuild are chosen by Init.                            *)
(***************************************************************************)
EXTENDS Integers, Sequences, FiniteSets, TLC

\* ------------------------------------------------------------------ bounds
\* Largest number of files in the bundled directory.
MaxDirFiles == 4
\* Largest number of register_source_sans_fonts calls in one behaviour.
MaxRegCalls == 2

\* --------------------------------------------------------------- filenames
RegularTtf ==
    <<"S", "o", "u", "r", "c", "e", "S", "a", "n", "s", "P", "r", "o", "-",
      "R", "e", "g", "u", "l", "a", "r", ".", "t", "t", "f">>
ItalicTtf ==
    <<"S", "o", "u", "r", "c", "e", "S", "a", "n", "s", "P", "r", "o", "-",
      "I", "t", "a", "l", "i", "c", ".", "t", "t", "f">>
BoldTtf ==
    <<"S", "o", "u", "r", "c", "e", "S", "a", "n", "s", "P", "r", "o", "-",
      "B", "o", "l", "d", ".", "t", "t", "f">>
BoldItalicTtf ==
    <<"S", "o", "u", "r", "c", "e", "S", "a", "n", "s", "P", "r", "o", "-",
      "B", "o", "l", "d", "I", "t", "a", "l", "i", "c", ".", "t", "t", "f">>
\* An additional weight file, discoverable via listing only; its family
\* name is not the target family.
LightTtf ==
    <<"S", "o", "u", "r", "c", "e", "S", "a", "n", "s", "P", "r", "o", "-",
      "L", "i", "g", "h", "t", ".", "t", "t", "f">>
\* A file of the directory that is not a typeface.
LicenseTxt ==
    <<"O", "F", "L", ".", "t", "x", "t">>

\* The files the bundled directory may hold.
FileUniverse ==
    {RegularTtf, ItalicTtf, BoldTtf, BoldItalicTtf, LightTtf, LicenseTxt}

\* Unicode code points, the order Python compares str by.
CodePoint ==
    "-" :> 45 @@ "." :> 46 @@ "B" :> 66 @@ "F" :> 70 @@ "I" :> 73 @@
    "L" :> 76 @@ "O" :> 79 @@ "P" :> 80 @@ "R" :> 82 @@ "S" :> 83 @@
    "a" :> 97 @@ "c" :> 99 @@ "d" :> 100 @@ "e" :> 101 @@ "f" :> 102 @@
    "g" :> 103 @@ "h" :> 104 @@ "i" :> 105 @@ "l" :> 108 @@ "n" :> 110 @@
    "o" :> 111 @@ "r" :> 114 @@ "s" :> 115 @@ "t" :> 116 @@ "u" :> 117 @@
    "x" :> 120

\* The family the font manager is asked for.
TargetFamily == "Source Sans Pro"

\* The family name matplotlib reads from a font file when it adds it.
FamilyOf(f) ==
    IF f = LightTtf THEN "Source Sans Pro Light" ELSE TargetFamily

\* The families a font manager knows at start-up: the system's fonts, with
\* or without a system-wide installation of the target family.
SystemFontLists ==
    {<<"DejaVu Sans">>, <<"DejaVu Sans", TargetFamily>>}

\* ------------------------------------------------------------------- state
VARIABLES
    MATPLOTLIB_AVAILABLE, \* the import of matplotlib.font_manager succeeded
    dirExists,            \* the bundled directory exists
    dirFiles,             \* the filenames in the bundled directory
    globOrder,            \* the order in which glob yields the .ttf files
    corrupt,              \* the files fontManager.addfont raises on
    hasRebuild,           \* font_manager has a _rebuild attribute
    ttflist,              \* fontManager.ttflist, as the entries' names
    cacheBuilds,          \* the number of font cache rebuilds
    nreg,                 \* the number of register_source_sans_fonts calls
    ret                   \* the outcome of the last call

vars ==
    <<MATPLOTLIB_AVAILABLE, dirExists, dirFiles, globOrder, corrupt,
      hasRebuild, ttflist, cacheBuilds, nreg, ret>>

\* ----------------------------------------------------------------- helpers
Range(s) == {s[i] : i \in 1..Len(s)}

\* The orders in which a set can be enumerated.
Orders(S) ==
    {s \in [1..Cardinality(S) -> S] : Range(s) = S}

\* fnmatch of a name against "*.ttf".
DotTtf == <<".", "t", "t", "f">>

IsTtf(name) ==
    /\ Len(name) >= Len(DotTtf)
    /\ SubSeq(name, Len(name) - Len(DotTtf) + 1, Len(name)) = DotTtf

\* Python's str.__lt__: the first differing code point decides, and a proper
\* prefix is smaller.
RECURSIVE LexLess(_, _)
LexLess(a, b) ==
    IF b = <<>> THEN FALSE
    ELSE IF a = <<>> THEN TRUE
    ELSE IF CodePoint[Head(a)] # CodePoint[Head(b)]
         THEN CodePoint[Head(a)] < CodePoint[Head(b)]
         ELSE LexLess(Tail(a), Tail(b))

\* Insertion of x into an ascending sequence, after its equals (stable).
RECURSIVE Insert(_, _)
Insert(x, s) ==
    IF s = <<>> THEN <<x>>
    ELSE IF LexLess(x, Head(s)) THEN <<x>> \o s
    ELSE <<Head(s)>> \o Insert(x, Tail(s))

RECURSIVE SortedFrom(_, _)
SortedFrom(acc, s) ==
    IF s = <<>> THEN acc ELSE SortedFrom(Insert(Head(s), acc), Tail(s))

\* sorted(font_files)
UnsortedMutant(s) == s

Sorted(s) == SortedFrom(<<>>, s)

\* ----------------------------------------------------------- get_font_path
ModuleFile == <<"RSSpythemes", "fonts", "__init__.py">>

Parent(p) == SubSeq(p, 1, Len(p) - 1)

\* Path(__file__).parent / "source_sans_pro"
get_font_path == Append(Parent(ModuleFile), "source_sans_pro")

\* font_dir.glob("*.ttf"): the matching entries, in directory order.
Glob == IF dirExists THEN globOrder ELSE <<>>

\* The outcome of a call: the exception it raised ("none" when it returned),
\* the value it returned, its calls into the font manager and what it
\* printed.
Outcome(op, verbose, raised, value, fmCalls, output) ==
    [op |-> op, verbose |-> verbose, raised |-> raised, value |-> value,
     fmCalls |-> fmCalls, output |-> output]

NoValue == <<>>

\* ---------------------------------------------------- list_available_fonts
list_available_fonts ==
    IF ~dirExists THEN <<>>
    ELSE Sorted(Glob)

\* ------------------------------------------------- get_source_sans_weights
WeightsMutant ==
    [regular |-> RegularTtf, italic |-> ItalicTtf, bold |-> BoldTtf,
     bold_italic |-> BoldTtf]

get_source_sans_weights ==
    [regular |-> RegularTtf, italic |-> ItalicTtf, bold |-> BoldTtf,
     bold_italic |-> BoldItalicTtf]

\* ---------------------------------------------- register_source_sans_fonts
\* The guard on MATPLOTLIB_AVAILABLE: the exception the call starts with.
NoCapabilityCheck == "none"

CapabilityError ==
    IF ~MATPLOTLIB_AVAILABLE THEN "ImportError" ELSE "none"

\* str(font_file): the path handed to the font manager.
PathOf(f) == Append(get_font_path, f)

\* fm.fontManager.addfont(path) raises: on a file it cannot load, and (as a
\* NameError on fm) when the import failed.
AddFontRaises(f) == ~MATPLOTLIB_AVAILABLE \/ f \in corrupt

\* The local state of the call while it runs.
StartOfCall ==
    [count |-> 0, ttflist |-> ttflist, cacheBuilds |-> cacheBuilds,
     fmCalls |-> <<>>, output |-> <<>>, raised |-> "none"]

Say(st, verbose, line) ==
    IF verbose THEN [st EXCEPT !.output = Append(@, line)] ELSE st

\* One iteration of the loop over font_files: the try/except around addfont.
AddFontNoCatch(st, f, verbose) ==
    LET called == [st EXCEPT !.fmCalls = Append(@, <<"addfont", PathOf(f)>>)]
    IN  IF AddFontRaises(f)
        THEN [called EXCEPT !.raised = "Exception"]
        ELSE Say([called EXCEPT !.ttflist = Append(@, FamilyOf(f)),
                                !.count = @ + 1],
                 verbose, <<"Registered", f>>)

AddFontCountsWhenVerbose(st, f, verbose) ==
    LET called == [st EXCEPT !.fmCalls = Append(@, <<"addfont", PathOf(f)>>)]
    IN  IF AddFontRaises(f)
        THEN Say(called, verbose, <<"Failed to register", f>>)
        ELSE Say([called EXCEPT !.ttflist = Append(@, FamilyOf(f)),
                                !.count = IF verbose THEN @ + 1 ELSE @],
                 verbose, <<"Registered", f>>)

AddFontStep(st, f, verbose) ==
    LET called == [st EXCEPT !.fmCalls = Append(@, <<"addfont", PathOf(f)>>)]
    IN  IF AddFontRaises(f)
        THEN Say(called, verbose, <<"Failed to register", f>>)
        ELSE Say([called EXCEPT !.ttflist = Append(@, FamilyOf(f)),
                                !.count = @ + 1],
                 verbose, <<"Registered", f>>)

\* for font_file in font_files: an exception that escapes an iteration ends
\* the loop and the call.
RECURSIVE Loop(_, _, _)
Loop(st, files, verbose) ==
    IF files = <<>> \/ st.raised # "none" THEN st
    ELSE Loop(AddFontStep(st, Head(files), verbose), Tail(files), verbose)

\* if registered_count > 0:
AlwaysRebuild(count) == TRUE

NeedsRebuild(count) == count > 0

\* fm._rebuild() inside try/except AttributeError, then the summary line.
\* A _rebuild that exists is taken to complete and to rebuild the cache
\* only: it leaves the entries of ttflist as they are.
RebuildStep(st, verbose) ==
    LET called == [st EXCEPT !.fmCalls = Append(@, <<"_rebuild">>)]
        built  == IF ~MATPLOTLIB_AVAILABLE
                  THEN [called EXCEPT !.raised = "NameError"]
                  ELSE IF hasRebuild
                  THEN [called EXCEPT !.cacheBuilds = @ + 1]
                  ELSE called
    IN  IF built.raised # "none" THEN built
        ELSE Say(built, verbose, <<"Successfully registered", st.count>>)

\* return registered_count > 0
ReturnsTrueAlways(count) == count >= 0

ReturnValue(count) == count > 0

\* The whole call, from the state it starts in.
RegisterRun(verbose) ==
    IF CapabilityError # "none"
    THEN [StartOfCall EXCEPT !.raised = CapabilityError] @@ [value |-> NoValue]
    ELSE IF ~dirExists
    THEN Say(StartOfCall, verbose, <<"Font directory not found", get_font_path>>)
         @@ [value |-> FALSE]
    ELSE IF Glob = <<>>
    THEN Say(StartOfCall, verbose, <<"No font files found in", get_font_path>>)
         @@ [value |-> FALSE]
    ELSE LET looped == Loop(StartOfCall, Glob, verbose)
             ended  == IF looped.raised = "none" /\ NeedsRebuild(looped.count)
                       THEN RebuildStep(looped, verbose)
                       ELSE looped
         IN  IF ended.raised # "none"
             THEN ended @@ [value |-> NoValue]
             ELSE ended @@ [value |-> ReturnValue(ended.count)]

\* ------------------------------------------------ is_source_sans_available
\* font_names = {f.name for f in fm.fontManager.ttflist}
AvailableUnguarded ==
    IF ~MATPLOTLIB_AVAILABLE
    THEN Outcome("is_source_sans_available", FALSE, "NameError", NoValue,
                 <<<<"ttflist">>>>, <<>>)
    ELSE Outcome("is_source_sans_available", FALSE, "none",
                 TargetFamily \in Range(ttflist), <<<<"ttflist">>>>, <<>>)

AvailableFirstEntryOnly ==
    IF ~MATPLOTLIB_AVAILABLE
    THEN Outcome("is_source_sans_available", FALSE, "none", FALSE, <<>>, <<>>)
    ELSE Outcome("is_source_sans_available", FALSE, "none",
                 ttflist # <<>> /\ Head(ttflist) = TargetFamily,
                 <<<<"ttflist">>>>, <<>>)

AvailableRun ==
    IF ~MATPLOTLIB_AVAILABLE
    THEN Outcome("is_source_sans_available", FALSE, "none", FALSE, <<>>, <<>>)
    ELSE Outcome("is_source_sans_available", FALSE, "none",
                 TargetFamily \in Range(ttflist), <<<<"ttflist">>>>, <<>>)

\* -------------------------------------------------------------------- Init
TypeOK ==
    /\ MATPLOTLIB_AVAILABLE \in BOOLEAN
    /\ dirExists \in BOOLEAN
    /\ dirFiles \subseteq FileUniverse
    /\ Cardinality(dirFiles) <= MaxDirFiles
    /\ globOrder \in Orders({f \in dirFiles : IsTtf(f)})
    /\ corrupt \subseteq {f \in dirFiles : IsTtf(f)}
    /\ hasRebuild \in BOOLEAN
    /\ nreg \in 0..MaxRegCalls
    /\ cacheBuilds \in 0..MaxRegCalls

Init ==
    /\ MATPLOTLIB_AVAILABLE \in BOOLEAN
    /\ dirExists \in BOOLEAN
    /\ dirFiles \in {S \in SUBSET FileUniverse :
                       /\ Cardinality(S) <= MaxDirFiles
                       /\ ~dirExists => S = {}}
    /\ globOrder \in Orders({f \in dirFiles : IsTtf(f)})
    /\ corrupt \in SUBSET {f \in dirFiles : IsTtf(f)}
    /\ hasRebuild \in (IF MATPLOTLIB_AVAILABLE THEN BOOLEAN ELSE {FALSE})
    /\ ttflist \in (IF MATPLOTLIB_AVAILABLE THEN SystemFontLists ELSE {<<>>})
    /\ cacheBuilds = 0
    /\ nreg = 0
    /\ ret = Outcome("none", FALSE, "none", NoValue, <<>>, <<>>)

\* ----------------------------------------------------------------- actions
Environment ==
    <<MATPLOTLIB_AVAILABLE, dirExists, dirFiles, globOrder, corrupt,
      hasRebuild>>

GetFontPath ==
    /\ ret' = Outcome("get_font_path", FALSE, "none", get_font_path,
                      <<>>, <<>>)
    /\ UNCHANGED <<Environment, ttflist, cacheBuilds, nreg>>

ListAvailableFonts ==
    /\ ret' = Outcome("list_available_fonts", FALSE, "none",
                      list_available_fonts, <<>>, <<>>)
    /\ UNCHANGED <<Environment, ttflist, cacheBuilds, nreg>>

GetSourceSansWeights ==
    /\ ret' = Outcome("get_source_sans_weights", FALSE, "none",
                      get_source_sans_weights, <<>>, <<>>)
    /\ UNCHANGED <<Environment, ttflist, cacheBuilds, nreg>>

IsAvailableRegisters ==
    /\ ret' = AvailableRun
    /\ IF MATPLOTLIB_AVAILABLE /\ TargetFamily \notin Range(ttflist)
          /\ nreg < MaxRegCalls
       THEN /\ ttflist' = RegisterRun(FALSE).ttflist
            /\ nreg' = nreg + 1
       ELSE UNCHANGED <<ttflist, nreg>>
    /\ UNCHANGED <<Environment, cacheBuilds>>

IsSourceSansAvailable ==
    /\ ret' = AvailableRun
    /\ UNCHANGED <<Environment, ttflist, cacheBuilds, nreg>>

RegisterSourceSansFonts ==
    /\ nreg < MaxRegCalls
    /\ \E verbose \in BOOLEAN :
         LET run == RegisterRun(verbose)
         IN  /\ ret' = Outcome("register_source_sans_fonts", verbose,
                               run.raised, run.value, run.fmCalls, run.output)
             /\ ttflist' = run.ttflist
             /\ cacheBuilds' = run.cacheBuilds
    /\ nreg' = nreg + 1
    /\ UNCHANGED Environment

Next ==
    \/ GetFontPath
    \/ ListAvailableFonts
    \/ GetSourceSansWeights
    \/ IsSourceSansAvailable
    \/ RegisterSourceSansFonts

Spec == Init /\ [][Next]_vars

\* -------------------------------------------------------------- properties
TtfFiles == {f \in dirFiles : IsTtf(f)}

ReadOnlyOps ==
    {"get_font_path", "list_available_fonts", "get_source_sans_weights",
     "is_source_sans_available"}

\* A step is a call of register_source_sans_fonts.
RegisterStep == nreg' = nreg + 1

\* The number of calls of a kind in a log of font manager calls.
CountCalls(calls, kind) ==
    Cardinality({i \in 1..Len(calls) : calls[i][1] = kind})

\* The entries a step appended to the font registry.
Added == SubSeq(ttflist', Len(ttflist) + 1, Len(ttflist'))

\* C1: with matplotlib available, register_source_sans_fonts returns, and its
\* value is true exactly when the step added at least one entry to the font
\* registry; it is false when the directory is missing, holds no .ttf file,
\* or every .ttf file fails to register.
C1_TrueIffSomeFileRegistered ==
    [][(RegisterStep /\ MATPLOTLIB_AVAILABLE) =>
          /\ ret'.raised = "none"
          /\ ret'.value \in BOOLEAN
          /\ ret'.value <=> (Len(ttflist') > Len(ttflist))
          /\ (~dirExists \/ TtfFiles = {} \/ TtfFiles \subseteq corrupt)
                => ret'.value = FALSE
          /\ (\E f \in TtfFiles : f \notin corrupt) => ret'.value = TRUE]_vars

\* A call returned true although some file failed to register.
C1_Witness ==
    /\ ret.op = "register_source_sans_fonts"
    /\ ret.raised = "none"
    /\ ret.value = TRUE
    /\ corrupt # {}

\* C2: whatever subset of the .ttf files fails, the call hands every .ttf
\* file of the directory to addfont exactly once, appends the family of every
\* loadable file to the registry, in directory order, and raises nothing.
C2_PartialFailureTolerant ==
    [][(RegisterStep /\ MATPLOTLIB_AVAILABLE) =>
          LET calls == ret'.fmCalls
              Loadable(f) == f \notin corrupt
              good == SelectSeq(Glob, Loadable)
          IN  /\ ret'.raised = "none"
              /\ CountCalls(calls, "addfont") = Cardinality(TtfFiles)
              /\ \A f \in TtfFiles :
                    Cardinality({i \in 1..Len(calls) :
                                   calls[i] = <<"addfont", PathOf(f)>>}) = 1
              /\ Added = [i \in 1..Len(good) |-> FamilyOf(good[i])]]_vars

\* A call whose first file failed and whose second file was registered.
C2_Witness ==
    /\ ret.op = "register_source_sans_fonts"
    /\ ret.raised = "none"
    /\ Len(globOrder) >= 2
    /\ globOrder[1] \in corrupt
    /\ globOrder[2] \notin corrupt
    /\ Len(ret.fmCalls) >= 2

\* C3: without matplotlib the call raises ImportError, whatever verbose and
\* the directory are: it returns no value, calls nothing of the font manager
\* and leaves the registry and the cache as they were.
C3_ImportErrorWithoutMatplotlib ==
    [][(RegisterStep /\ ~MATPLOTLIB_AVAILABLE) =>
          /\ ret'.raised = "ImportError"
          /\ ret'.value = NoValue
          /\ ret'.fmCalls = <<>>
          /\ ttflist' = ttflist
          /\ cacheBuilds' = cacheBuilds]_vars

\* A verbose call on a populated directory, without matplotlib.
C3_Witness ==
    /\ ret.op = "register_source_sans_fonts"
    /\ ~MATPLOTLIB_AVAILABLE
    /\ ret.verbose
    /\ TtfFiles # {}

\* C4: a call attempts the cache rebuild at most once, as its last call into
\* the font manager after one addfont per .ttf file, and exactly when it
\* registered a file; without font_manager._rebuild the call still returns
\* true and builds no cache.
C4_RebuildOnceAfterLoop ==
    [][(RegisterStep /\ MATPLOTLIB_AVAILABLE) =>
          LET calls == ret'.fmCalls
              nb == CountCalls(calls, "_rebuild")
          IN  /\ nb <= 1
              /\ (nb = 1) <=> (Len(ttflist') > Len(ttflist))
              /\ (nb = 1) =>
                    /\ Len(calls) = Cardinality(TtfFiles) + 1
                    /\ calls[Len(calls)] = <<"_rebuild">>
                    /\ ret'.raised = "none"
                    /\ ret'.value = TRUE
              /\ cacheBuilds' = IF hasRebuild THEN cacheBuilds + nb
                                ELSE cacheBuilds]_vars

\* A call that registered a file with a font manager without _rebuild.
C4_Witness ==
    /\ ret.op = "register_source_sans_fonts"
    /\ MATPLOTLIB_AVAILABLE
    /\ ~hasRebuild
    /\ ret.raised = "none"
    /\ ret.value = TRUE
    /\ CountCalls(ret.fmCalls, "_rebuild") = 1

\* C5: list_available_fonts returns, without raising, a strictly ascending
\* sequence (so without duplicates) whose elements are exactly the names of
\* the directory ending in .ttf; the empty sequence when the directory is
\* absent; <<Bold, Regular>> for a directory of exactly Regular and Bold.
C5_ListSortedTtfNames ==
    ret.op = "list_available_fonts" =>
        /\ ret.raised = "none"
        /\ \A i \in 1..(Len(ret.value) - 1) :
              LexLess(ret.value[i], ret.value[i + 1])
        /\ Range(ret.value) = TtfFiles
        /\ ~dirExists => ret.value = <<>>
        /\ dirFiles = {RegularTtf, BoldTtf} => ret.value = <<BoldTtf, RegularTtf>>

\* The listing of a directory that glob yields as Regular, Bold.
C5_Witness ==
    /\ ret.op = "list_available_fonts"
    /\ dirFiles = {RegularTtf, BoldTtf}
    /\ globOrder = <<RegularTtf, BoldTtf>>

\* The result of is_source_sans_available is whether the target family is
\* among the names of the registry.
AvailableIsMembership ==
    (ret.op = "is_source_sans_available" /\ MATPLOTLIB_AVAILABLE) =>
        /\ ret.raised = "none"
        /\ ret.value <=> (TargetFamily \in Range(ttflist))

\* A call that registers a file of the target family makes the family known.
RegistrationMakesKnown ==
    (RegisterStep /\ MATPLOTLIB_AVAILABLE
       /\ \E f \in TtfFiles : f \notin corrupt /\ FamilyOf(f) = TargetFamily)
    => TargetFamily \in Range(ttflist')

\* A known family stays known.
KnownStaysKnown ==
    TargetFamily \in Range(ttflist) => TargetFamily \in Range(ttflist')

\* C6 (as stated): is_source_sans_available returns false before any
\* registration call, true in every state after a registration of a file of
\* the target family, and its result is membership in the known names.
C6_FalseBeforeAnyRegistration ==
    /\ [](nreg = 0 /\ ret.op = "is_source_sans_available"
            => ret.raised = "none" /\ ret.value = FALSE)
    /\ []AvailableIsMembership
    /\ [][RegistrationMakesKnown /\ KnownStaysKnown]_vars

\* C6 (amended): before any registration call is_source_sans_available
\* returns false provided the font manager does not already know the target
\* family; after a registration of a file of the target family it returns true
\* in every state; its result is membership in the known names.
C6_AvailableIffFamilyKnown ==
    /\ [](nreg = 0 /\ ret.op = "is_source_sans_available"
            /\ MATPLOTLIB_AVAILABLE /\ TargetFamily \notin Range(ttflist)
            => ret.raised = "none" /\ ret.value = FALSE)
    /\ []AvailableIsMembership
    /\ [][RegistrationMakesKnown /\ KnownStaysKnown]_vars

\* The family was unknown at start-up, a call registered the Light file and
\* then a file of the target family, and the query answers true.
C6_Witness ==
    /\ nreg >= 1
    /\ ret.op = "is_source_sans_available"
    /\ ret.raised = "none"
    /\ ret.value = TRUE
    /\ Len(ttflist) >= 3
    /\ ttflist[2] = FamilyOf(LightTtf)

\* The mapping the documentation gives for get_source_sans_weights.
DocumentedWeights ==
    [regular |-> RegularTtf, italic |-> ItalicTtf, bold |-> BoldTtf,
     bold_italic |-> BoldItalicTtf]

C8_OnlyRegisterChangesRegistry ==
    [][/\ ret'.op \in ReadOnlyOps =>
             /\ ttflist' = ttflist
             /\ cacheBuilds' = cacheBuilds
       /\ dirExists' = dirExists
       /\ dirFiles' = dirFiles
       /\ MATPLOTLIB_AVAILABLE' = MATPLOTLIB_AVAILABLE
       /\ Environment' = Environment]_vars

\* A query made after a registration that had added entries.
C8_Witness ==
    /\ nreg >= 1
    /\ ret.op = "is_source_sans_available"
    /\ Len(ttflist) > 2
    /\ dirFiles # {}

\* C9: without matplotlib is_source_sans_available returns false, raises
\* nothing and makes no call into the font manager, while a
\* register_source_sans_fonts call that follows it raises ImportError.
C9_AvailabilityCheckIsSafe ==
    /\ []((~MATPLOTLIB_AVAILABLE /\ ret.op = "is_source_sans_available") =>
             /\ ret.raised = "none"
             /\ ret.value = FALSE
             /\ ret.fmCalls = <<>>)
    /\ [][(~MATPLOTLIB_AVAILABLE /\ ret.op = "is_source_sans_available"
             /\ RegisterStep) =>
             /\ ret.raised = "none"
             /\ ret'.raised = "ImportError"
             /\ ret'.value = NoValue]_vars

\* Without matplotlib: a registration that failed, then the query.
C9_Witness ==
    /\ ~MATPLOTLIB_AVAILABLE
    /\ nreg = 1
    /\ ret.op = "is_source_sans_available"
    /\ ret.raised = "none"

\* What a call of register_source_sans_fonts does, apart from what it prints.
SameEffect(a, b) ==
    /\ a.raised = b.raised
    /\ a.raised = "none" => a.value = b.value
    /\ a.fmCalls = b.fmCalls
    /\ a.ttflist = b.ttflist
    /\ a.cacheBuilds = b.cacheBuilds

\* C10: from one state, the verbose and the silent call raise or return the
\* same, make the same font manager calls in the same order and leave the
\* same registry and cache; the call made has that effect.
C10_VerboseOnlyAffectsOutput ==
    [][RegisterStep =>
          /\ SameEffect(RegisterRun(TRUE), RegisterRun(FALSE))
          /\ SameEffect(RegisterRun(~ret'.verbose),
                        [raised |-> ret'.raised, value |-> ret'.value,
                         fmCalls |-> ret'.fmCalls, ttflist |-> ttflist',
                         cacheBuilds |-> cacheBuilds'])]_vars

\* A verbose call that reported a failure and a registration.
C10_Witness ==
    /\ ret.op = "register_source_sans_fonts"
    /\ ret.verbose
    /\ Len(ret.output) >= 3
    /\ corrupt # {}
    /\ ret.raised = "none"
    /\ ret.value = TRUE

====
